---- MODULE Spec2Model ----
(***************************************************************************)
(* Model of the query translation pipeline of the VexaAI data analyst:     *)
(*   - core/ai_client.py : the provider adapters and UnifiedAIClient        *)
(*   - config/ai_config.py : initialize_ai_from_env                         *)
(*   - core/ml_engine.py : generate_sql_query and its text post-processing, *)
(*     execute_query, interpret_results, the legacy GroqClient wrapper      *)
(*   - backend_api/main.py, pages/3_Analysis_Insights.py, utils/ai_sidebar  *)
(*     : the callers (configure_ai, ai_query, the analysis page, the        *)
(*     sidebar switch)                                                      *)
(*                                                                         *)
(* Four specifications share the variables.  Spec drives one               *)
(* UnifiedAIClient through add_client, set_active_provider,                 *)
(* initialize_ai_from_env and chat_completion (the latter one network       *)
(* attempt per step).  SqlSpec applies generate_sql_query to every provider *)
(* reply of a bounded set; text is a sequence of characters.  PipeSpec      *)
(* answers questions through ai_query and the analysis page, two sessions   *)
(* configuring the shared client in between.  ConvSpec applies the Gemini   *)
(* message and response conversions and the row preview of                  *)
(* interpret_results to bounded inputs.                                     *)
(* The operations of one client are invoked one at a time: a Streamlit      *)
(* script run or a request handler calls them synchronously.                *)
(***************************************************************************)
EXTENDS Integers, Sequences, FiniteSets

VARIABLES
    clients,          \* UnifiedAIClient.clients: the dict, as its items in insertion order
    active_provider,  \* UnifiedAIClient.active_provider (None or a key)
    active_model,     \* UnifiedAIClient.active_model
    pc,               \* position inside chat_completion: idle, try_active, fallback, done
    fb_index,         \* position of the fallback loop in clients.items()
    first_error,      \* the exception e bound by the outer except clause
    attempts,         \* the network calls made by the current chat_completion call
    result,           \* outcome of the last operation (what it returned or raised)
    raw_reply,        \* generate_sql_query: content of the provider response
    table_name,       \* generate_sql_query: its table_name argument
    response_kind,    \* generate_sql_query: what client.chat_completion handed it
    sql_pc,           \* generate_sql_query: start, returned, raised, reprocessed
    sql_cleaned,      \* the text after terminator stripping, before the FROM repair
    sql_out,          \* the text generate_sql_query returned or raised with
    sql_again,        \* post-processing applied to the returned query once more
    entry,            \* who handles the question: none, api (ai_query), page (analysis page)
    stage,            \* the pipeline function under way: idle, synth, exec, interp, finished
    calls,            \* the pipeline functions called for the question, in call order
    conn,             \* the sqlite3 connection of execute_query: none, open, closed
    results,          \* the result table of execute_query: none, empty, rows
    response,         \* what the caller of the pipeline is given
    conv_in,          \* the argument of a conversion called on its own
    conv_out          \* what that conversion returned or raised

clientVars == <<clients, active_provider, active_model, pc, fb_index, first_error,
                attempts, result>>
sqlVars == <<raw_reply, table_name, response_kind, sql_pc, sql_cleaned, sql_out, sql_again>>
pipeVars == <<entry, stage, calls, conn, results, response>>
convVars == <<conv_in, conv_out>>
vars == <<clients, active_provider, active_model, pc, fb_index, first_error,
          attempts, result, raw_reply, table_name, response_kind, sql_pc,
          sql_cleaned, sql_out, sql_again, entry, stage, calls, conn, results, response,
          conv_in, conv_out>>

None == "None"

(***************************************************************************)
(* Provider adapters                                                       *)
(***************************************************************************)

\* The keys under which add_client registers an adapter.
ProviderKeys == {"xai", "groq", "gemini"}

\* Provider names a caller may pass (any letter case, the alias, an unknown one).
ProviderNames == {"xai", "XAI", "grok", "groq", "Groq", "gemini", "openai"}

\* str.lower() on the names above.
Lower(name) ==
    CASE name = "XAI" -> "xai"
      [] name = "Groq" -> "groq"
      [] OTHER -> name

ApiKeys == {"k1", "k2"}

\* get_available_models of each adapter.
XAIModels == <<"grok-2-1212", "grok-2-vision-1212", "grok-beta", "grok-vision-beta">>
GroqModels == <<"llama-3.3-70b-versatile", "llama-3.1-70b-versatile",
                "llama-3.1-8b-instant", "mixtral-8x7b-32768", "gemma2-9b-it">>
GeminiModels == <<"gemini-1.5-flash", "gemini-1.5-pro", "gemini-pro">>

AvailableModels(key) ==
    CASE key = "xai" -> XAIModels
      [] key = "groq" -> GroqModels
      [] key = "gemini" -> GeminiModels

\* Model arguments a caller may pass to set_active_provider.
ModelArgs == {None, "grok-2-1212", "grok-beta", "llama-3.3-70b-versatile",
              "gemini-1.5-flash", "unlisted-model"}

\* What one HTTPS POST of an adapter can meet:
\*   ok            a 2xx response whose JSON body holds the completion text
\*   network_error requests.post raises (connection error, timeout)
\*   http_error    raise_for_status raises on a non-2xx response
\*   no_choices    a 2xx response whose JSON body holds no completion text
Outcomes == {"ok", "network_error", "http_error", "no_choices"}

NoError == [provider |-> None, cause |-> None]

\* Whether the adapter's chat_completion raises on this outcome.  XAIClient and
\* GroqClient return response.json() as it is; GeminiClient extracts the text
\* in _convert_response, which raises when the path is missing.
AdapterRaises(key, outcome) ==
    \/ outcome \in {"network_error", "http_error"}
    \/ key = "gemini" /\ outcome = "no_choices"

\* The exception an adapter raises: "<provider> API error: <cause>" or
\* "Error parsing Gemini response: <cause>".
AdapterError(key, outcome) == [provider |-> key, cause |-> outcome]

(***************************************************************************)
(* UnifiedAIClient                                                         *)
(***************************************************************************)

ClientKeys == {clients[i].key : i \in 1..Len(clients)}

NoResult == [op |-> "init", kind |-> "none", provider |-> None, model |-> None,
             well_formed |-> FALSE, errors |-> <<>>, has_providers |-> FALSE]

\* The ValueError of a rejected call: it names no adapter.
ValueError == <<[provider |-> None, cause |-> "ValueError"]>>

Returned(op) == [NoResult EXCEPT !.op = op, !.kind = "returned"]

Raised(op, errs) == [NoResult EXCEPT !.op = op, !.kind = "raised", !.errors = errs]

\* The key add_client stores the new adapter under, None for an unknown name.
AddClientKey(provider) ==
    LET provider_lower == Lower(provider)
    IN  IF provider_lower \in {"xai", "grok"} THEN "xai"
        ELSE IF provider_lower = "groq" THEN "groq"
        ELSE IF provider_lower = "gemini" THEN "gemini"
        ELSE None

\* dict assignment: a new key goes last, an existing key keeps its place.
DictSet(d, key, api_key) ==
    IF \E i \in 1..Len(d) : d[i].key = key
    THEN [i \in 1..Len(d) |->
            IF d[i].key = key THEN [key |-> key, api_key |-> api_key] ELSE d[i]]
    ELSE Append(d, [key |-> key, api_key |-> api_key])

add_client(provider, api_key) ==
    /\ pc = "idle"
    /\ LET key == AddClientKey(provider)
       IN  IF key = None
           THEN /\ result' = Raised("add_client", ValueError)
                /\ UNCHANGED clients
           ELSE /\ clients' = DictSet(clients, key, api_key)
                /\ result' = Returned("add_client")
    /\ UNCHANGED <<active_provider, active_model, pc, fb_index, first_error, attempts>>
    /\ UNCHANGED <<sqlVars, pipeVars, convVars>>

\* Mutant of DefaultModel: no default is filled in.
DefaultModelMissing(provider_lower) == IF provider_lower \in ProviderKeys THEN None ELSE None

\* The model set_active_provider stores when none is given.
DefaultModel(provider_lower) ==
    CASE provider_lower = "xai" -> "grok-2-1212"
      [] provider_lower = "groq" -> "llama-3.3-70b-versatile"
      [] provider_lower = "gemini" -> "gemini-1.5-flash"
      [] OTHER -> None

\* Mutant of set_active_provider: the provider is stored before it is looked up.
set_active_provider_assign_first(provider, model) ==
    /\ pc = "idle"
    /\ LET provider_lower == Lower(provider)
       IN  /\ active_provider' = provider_lower
           /\ IF provider_lower \notin ClientKeys
              THEN /\ result' = Raised("set_active_provider", ValueError)
                   /\ UNCHANGED active_model
              ELSE /\ active_model' = IF model = None THEN DefaultModel(provider_lower)
                                      ELSE model
                   /\ result' = Returned("set_active_provider")
    /\ UNCHANGED <<clients, pc, fb_index, first_error, attempts>>
    /\ UNCHANGED <<sqlVars, pipeVars, convVars>>

set_active_provider(provider, model) ==
    /\ pc = "idle"
    /\ LET provider_lower == Lower(provider)
       IN  IF provider_lower \notin ClientKeys
           THEN /\ result' = Raised("set_active_provider", ValueError)
                /\ UNCHANGED <<active_provider, active_model>>
           ELSE /\ active_provider' = provider_lower
                /\ active_model' = IF model = None THEN DefaultModel(provider_lower)
                                   ELSE model
                /\ result' = Returned("set_active_provider")
    /\ UNCHANGED <<clients, pc, fb_index, first_error, attempts>>
    /\ UNCHANGED <<sqlVars, pipeVars, convVars>>

\* One network call of chat_completion, as recorded in attempts.
Attempt(key, model, outcome) == [provider |-> key, model |-> model, outcome |-> outcome]

\* The response chat_completion hands back when an adapter returns.
Reply(key, model, outcome) ==
    [NoResult EXCEPT !.op = "chat_completion", !.kind = "returned", !.provider = key,
                     !.model = model, !.well_formed = (outcome = "ok")]

\* Mutant of ChatBegin: the call goes to the adapter without the guard.
ChatBeginUnguarded ==
    /\ pc = "idle"
    /\ attempts' = <<>>
    /\ first_error' = NoError
    /\ fb_index' = 1
    /\ pc' = "try_active"
    /\ result' = NoResult
    /\ UNCHANGED <<clients, active_provider, active_model>>
    /\ UNCHANGED <<sqlVars, pipeVars, convVars>>

\* chat_completion, entry: the guard on active_provider.
ChatBegin ==
    /\ pc = "idle"
    /\ attempts' = <<>>
    /\ first_error' = NoError
    /\ fb_index' = 1
    /\ IF active_provider = None
       THEN /\ pc' = "done"
            /\ result' = Raised("chat_completion", ValueError)
       ELSE /\ pc' = "try_active"
            /\ result' = NoResult
    /\ UNCHANGED <<clients, active_provider, active_model>>
    /\ UNCHANGED <<sqlVars, pipeVars, convVars>>

\* chat_completion, the try block: the active provider with the active model.
ChatTryActive(outcome) ==
    /\ pc = "try_active"
    /\ attempts' = Append(attempts, Attempt(active_provider, active_model, outcome))
    /\ IF AdapterRaises(active_provider, outcome)
       THEN /\ first_error' = AdapterError(active_provider, outcome)
            /\ pc' = "fallback"
            /\ UNCHANGED result
       ELSE /\ result' = Reply(active_provider, active_model, outcome)
            /\ pc' = "done"
            /\ UNCHANGED first_error
    /\ UNCHANGED <<clients, active_provider, active_model, fb_index>>
    /\ UNCHANGED <<sqlVars, pipeVars, convVars>>

\* Mutant of FallbackCalls: the loop does not skip the active provider.
FallbackCallsAll(i) == i \in 1..Len(clients)

\* Whether the fallback loop calls the provider at this position of clients.items().
FallbackCalls(i) == clients[i].key # active_provider

\* Mutant of FallbackModel: the fallback provider is given the active model.
FallbackModelActive(key) == IF key \in ProviderKeys THEN active_model ELSE None

\* The model a fallback provider is called with.
FallbackModel(key) == AvailableModels(key)[1]

\* The errors the final "All AI providers failed. Last error: {e}" carries.
AllFailedErrors == <<first_error>>

\* Mutant of ChatFallback: a fallback provider that answers becomes the active one.
ChatFallbackSticky(outcome) ==
    /\ pc = "fallback"
    /\ IF fb_index > Len(clients)
       THEN /\ result' = Raised("chat_completion", AllFailedErrors)
            /\ pc' = "done"
            /\ UNCHANGED <<attempts, fb_index, active_provider, active_model>>
       ELSE LET key == clients[fb_index].key
            IN  IF ~FallbackCalls(fb_index)
                THEN /\ fb_index' = fb_index + 1
                     /\ UNCHANGED <<attempts, result, pc, active_provider, active_model>>
                ELSE /\ attempts' = Append(attempts,
                                           Attempt(key, FallbackModel(key), outcome))
                     /\ IF AdapterRaises(key, outcome)
                        THEN /\ fb_index' = fb_index + 1
                             /\ UNCHANGED <<result, pc, active_provider, active_model>>
                        ELSE /\ result' = Reply(key, FallbackModel(key), outcome)
                             /\ pc' = "done"
                             /\ active_provider' = key
                             /\ active_model' = FallbackModel(key)
                             /\ UNCHANGED fb_index
    /\ UNCHANGED <<clients, first_error>>
    /\ UNCHANGED <<sqlVars, pipeVars, convVars>>

\* chat_completion, one iteration of the fallback loop, or the raise after it.
ChatFallback(outcome) ==
    /\ pc = "fallback"
    /\ IF fb_index > Len(clients)
       THEN /\ result' = Raised("chat_completion", AllFailedErrors)
            /\ pc' = "done"
            /\ UNCHANGED <<attempts, fb_index>>
       ELSE LET key == clients[fb_index].key
            IN  IF ~FallbackCalls(fb_index)
                THEN /\ fb_index' = fb_index + 1
                     /\ UNCHANGED <<attempts, result, pc>>
                ELSE /\ attempts' = Append(attempts,
                                           Attempt(key, FallbackModel(key), outcome))
                     /\ IF AdapterRaises(key, outcome)
                        THEN /\ fb_index' = fb_index + 1
                             /\ UNCHANGED <<result, pc>>
                        ELSE /\ result' = Reply(key, FallbackModel(key), outcome)
                             /\ pc' = "done"
                             /\ UNCHANGED fb_index
    /\ UNCHANGED <<clients, active_provider, active_model, first_error>>
    /\ UNCHANGED <<sqlVars, pipeVars, convVars>>

\* The call is over: its locals are gone and the caller holds what it returned
\* or raised; the client is free for the next call.
ChatEnd ==
    /\ pc = "done"
    /\ pc' = "idle"
    /\ fb_index' = 1
    /\ first_error' = NoError
    /\ attempts' = <<>>
    /\ result' = NoResult
    /\ UNCHANGED <<clients, active_provider, active_model>>
    /\ UNCHANGED <<sqlVars, pipeVars, convVars>>

ChatStep ==
    \/ \E outcome \in Outcomes : ChatTryActive(outcome)
    \/ \E outcome \in Outcomes : ChatFallback(outcome)

\* generate_sql_query(..., client=None) up to its provider call: it takes the
\* unified client and raises when no provider is active; otherwise it calls
\* chat_completion (what it does with the reply is the subject of SqlSpec).
\* The cause "NoProviderConfigured" is the Exception "No AI provider
\* configured. Please configure an AI provider first."
GenerateSqlNoClient ==
    /\ pc = "idle"
    /\ IF active_provider = None
       THEN /\ result' = Raised("generate_sql_query", <<[provider |-> None, cause |-> "NoProviderConfigured"]>>)
            /\ UNCHANGED <<clients, active_provider, active_model, pc, fb_index,
                           first_error, attempts>>
            /\ UNCHANGED <<sqlVars, pipeVars, convVars>>
       ELSE ChatBegin

\* interpret_results(..., client=None) up to its provider call: it returns
\* "AI interpretation unavailable - no provider configured" when no provider
\* is active; otherwise it calls chat_completion.
InterpretNoClient ==
    /\ pc = "idle"
    /\ IF active_provider = None
       THEN /\ result' = Returned("interpret_results")
            /\ UNCHANGED <<clients, active_provider, active_model, pc, fb_index,
                           first_error, attempts>>
            /\ UNCHANGED <<sqlVars, pipeVars, convVars>>
       ELSE ChatBegin

(***************************************************************************)
(* config/ai_config.py: initialize_ai_from_env                              *)
(***************************************************************************)

\* What os.getenv finds for XAI_API_KEY, GROQ_API_KEY or GEMINI_API_KEY: unset,
\* blank, or a key.
EnvKeys == {None, " ", "k1"}

\* What os.getenv finds for DEFAULT_AI_PROVIDER and for DEFAULT_AI_MODEL.
EnvProviders == {None, "xai", "XAI", "groq", "gemini"}
EnvModels == {None, "grok-beta"}

\* key and key.strip()
EnvKeyGiven(key) == key \notin {None, " "}

\* One of the three blocks: the provider is added, and counted as initialized,
\* when its key is given and it is not registered yet.
EnvAdds(d, key, api_key) ==
    EnvKeyGiven(api_key) /\ ~\E i \in 1..Len(d) : d[i].key = key

EnvAdd(d, key, api_key) == IF EnvAdds(d, key, api_key) THEN DictSet(d, key, api_key) ELSE d

initialize_ai_from_env(xai_key, groq_key, gemini_key, env_provider, env_model) ==
    /\ pc = "idle"
    /\ LET d1 == EnvAdd(clients, "xai", xai_key)
           d2 == EnvAdd(d1, "groq", groq_key)
           d3 == EnvAdd(d2, "gemini", gemini_key)
           initialized_providers ==
               (IF EnvAdds(clients, "xai", xai_key) THEN <<"xai">> ELSE <<>>)
               \o (IF EnvAdds(d1, "groq", groq_key) THEN <<"groq">> ELSE <<>>)
               \o (IF EnvAdds(d2, "gemini", gemini_key) THEN <<"gemini">> ELSE <<>>)
           has_providers == Len(initialized_providers) > 0
           default_provider ==
               IF initialized_providers = <<>> THEN None
               ELSE IF env_provider = None THEN initialized_providers[1]
               ELSE env_provider
       IN  /\ clients' = d3
           /\ IF \E i \in 1..Len(initialized_providers) :
                    initialized_providers[i] = default_provider
              THEN /\ active_provider' = Lower(default_provider)
                   /\ active_model' = IF env_model = None
                                      THEN DefaultModel(Lower(default_provider))
                                      ELSE env_model
              ELSE UNCHANGED <<active_provider, active_model>>
           /\ result' = [Returned("initialize_ai_from_env")
                            EXCEPT !.has_providers = has_providers]
    /\ UNCHANGED <<pc, fb_index, first_error, attempts>>
    /\ UNCHANGED <<sqlVars, pipeVars, convVars>>

InitClient ==
    /\ clients = <<>>
    /\ active_provider = None
    /\ active_model = None
    /\ pc = "idle"
    /\ fb_index = 1
    /\ first_error = NoError
    /\ attempts = <<>>
    /\ result = NoResult

(***************************************************************************)
(* The question pipeline, at rest                                          *)
(***************************************************************************)

\* What a failure shown to the caller says: the pipeline function that failed,
\* the providers its text names, the query text it holds, the cause.
Failure(failed, providers, sql, cause) ==
    [failed |-> failed, providers |-> providers, sql |-> sql, cause |-> cause]

NoFailure == Failure(None, {}, <<>>, None)

NoInterpretation == [kind |-> "none", detail |-> <<>>]

NoResponse == [kind |-> "none", sql |-> <<>>, results |-> "none",
               interpretation |-> NoInterpretation, error |-> NoFailure]

\* No conversion is called on its own.
NoConversion == [fn |-> "none"]

InitConvIdle ==
    /\ conv_in = NoConversion
    /\ conv_out = NoConversion

\* No question is being answered.
InitPipe ==
    /\ entry = "none"
    /\ stage = "idle"
    /\ calls = <<>>
    /\ conn = "none"
    /\ results = "none"
    /\ response = NoResponse

(***************************************************************************)
(* Text: a Python str is a sequence of characters, each a one-character     *)
(* string; Eszett and Backtick stand for the single characters U+00DF and   *)
(* U+0060.                                                                 *)
(***************************************************************************)

Eszett == "eszett"

Backtick == "backtick"

Min(S) == CHOOSE x \in S : \A y \in S : x <= y

Max(S) == CHOOSE x \in S : \A y \in S : x >= y

Lowers == <<"a", "b", "c", "d", "e", "f", "g", "h", "i", "j", "k", "l", "m",
            "n", "o", "p", "q", "r", "s", "t", "u", "v", "w", "x", "y", "z">>
Uppers == <<"A", "B", "C", "D", "E", "F", "G", "H", "I", "J", "K", "L", "M",
            "N", "O", "P", "Q", "R", "S", "T", "U", "V", "W", "X", "Y", "Z">>

\* str.upper() of one character: a lower-case letter becomes its capital,
\* U+00DF becomes the two characters "SS", anything else stays.
UpperOf ==
    [c \in {Lowers[i] : i \in 1..26} \cup {Eszett} |->
        IF c = Eszett THEN <<"S", "S">>
        ELSE <<Uppers[CHOOSE i \in 1..26 : Lowers[i] = c]>>]

UpperChar(c) == IF c \in DOMAIN UpperOf THEN UpperOf[c] ELSE <<c>>

\* str.upper()
RECURSIVE Upper(_)
Upper(s) == IF s = <<>> THEN <<>> ELSE UpperChar(Head(s)) \o Upper(Tail(s))

\* s[i:] and s[:i] with a 0-based i >= 0 (an i beyond the end gives the empty/whole text).
SliceFrom(s, i) == SubSeq(s, i + 1, Len(s))

SliceTo(s, i) == SubSeq(s, 1, IF i < Len(s) THEN i ELSE Len(s))

\* str.find(pat): the 0-based index of the leftmost occurrence, -1 if none.
Find(s, pat) ==
    LET hits == {i \in 1..(Len(s) - Len(pat) + 1) : SubSeq(s, i, i + Len(pat) - 1) = pat}
    IN  IF hits = {} THEN -1 ELSE Min(hits) - 1

\* pat in s
Contains(s, pat) == Find(s, pat) # -1

\* s.startswith(pat)
StartsWith(s, pat) == Len(s) >= Len(pat) /\ SubSeq(s, 1, Len(pat)) = pat

\* s.replace(pat, ''): the leftmost non-overlapping occurrences are removed.
RECURSIVE Remove(_, _)
Remove(s, pat) ==
    LET i == Find(s, pat)
    IN  IF i = -1 THEN s
        ELSE SliceTo(s, i) \o Remove(SliceFrom(s, i + Len(pat)), pat)

Whitespace == {" ", "\n", "\t"}

\* s.strip()
Strip(s) ==
    LET keep == {i \in 1..Len(s) : s[i] \notin Whitespace}
    IN  IF keep = {} THEN <<>> ELSE SubSeq(s, Min(keep), Max(keep))

\* s.rstrip(ch)
RStrip(s, ch) ==
    LET keep == {i \in 1..Len(s) : s[i] # ch}
    IN  IF keep = {} THEN <<>> ELSE SubSeq(s, 1, Max(keep))

\* s.split('\n')
RECURSIVE Split(_)
Split(s) ==
    LET i == Find(s, <<"\n">>)
    IN  IF i = -1 THEN <<s>> ELSE <<SliceTo(s, i)>> \o Split(SliceFrom(s, i + 1))

\* ' '.join(lines)
RECURSIVE Join(_)
Join(lines) ==
    IF Len(lines) = 0 THEN <<>>
    ELSE IF Len(lines) = 1 THEN lines[1]
    ELSE lines[1] \o <<" ">> \o Join(Tail(lines))

\* The literals of generate_sql_query.
KwSelect == <<"S", "E", "L", "E", "C", "T">>
KwFrom == <<"F", "R", "O", "M">>
KwWhere == <<"W", "H", "E", "R", "E">>
KwGroupBy == <<"G", "R", "O", "U", "P", " ", "B", "Y">>
KwHaving == <<"H", "A", "V", "I", "N", "G">>
KwOrderBy == <<"O", "R", "D", "E", "R", " ", "B", "Y">>
KwLimit == <<"L", "I", "M", "I", "T">>
KwFromPadded == <<" ", "F", "R", "O", "M", " ">>
LabelSql == <<"S", "Q", "L", ":">>
Fence == <<Backtick, Backtick, Backtick>>
FenceSqlLower == <<Backtick, Backtick, Backtick, "s", "q", "l">>
FenceSqlUpper == <<Backtick, Backtick, Backtick, "S", "Q", "L">>

(***************************************************************************)
(* generate_sql_query: the post-processing of the provider reply           *)
(***************************************************************************)

\* Mutant of StripFences: only the fences tagged sql or SQL are removed.
StripFencesTaggedOnly(s) == Strip(Remove(Remove(s, FenceSqlLower), FenceSqlUpper))

\* Remove markdown code blocks.
StripFences(s) == Strip(Remove(Remove(Remove(s, FenceSqlLower), FenceSqlUpper), Fence))

\* Remove any "SQL:" prefix.
StripLabel(s) == IF StartsWith(Upper(s), LabelSql) THEN Strip(SliceFrom(s, 4)) ELSE s

\* Remove any explanatory text before SELECT: the index found in the upper-cased
\* text is applied to the text itself.
DropProse(s) ==
    IF Contains(Upper(s), KwSelect) THEN SliceFrom(s, Find(Upper(s), KwSelect)) ELSE s

\* [line.strip() for line in s.split('\n') if line.strip()]
NonBlankLines(s) ==
    LET parts == Split(s)
        stripped == [i \in 1..Len(parts) |-> Strip(parts[i])]
    IN  SelectSeq(stripped, LAMBDA line : line # <<>>)

\* Mutant of JoinLines: the lines are always joined.
JoinLinesAlways(s) == IF Len(NonBlankLines(s)) > 1 THEN Join(NonBlankLines(s)) ELSE s

\* If multiple lines, keep a complete first line or join them all.
JoinLines(s) ==
    LET lines == NonBlankLines(s)
    IN  IF Len(lines) > 1
        THEN IF Contains(Upper(lines[1]), KwSelect) /\ Contains(Upper(lines[1]), KwFrom)
             THEN lines[1]
             ELSE Join(lines)
        ELSE s

\* Remove trailing semicolon.
StripTerminator(s) == Strip(RStrip(s, ";"))

\* The text before the FROM repair.
Cleaned(raw) == StripTerminator(JoinLines(DropProse(StripLabel(StripFences(Strip(raw))))))

InsertKeywords == {KwWhere, KwGroupBy, KwHaving, KwOrderBy, KwLimit}

\* insert_pos: the least index of a keyword found in the upper-cased text,
\* len(sql_query) if none is found.
InsertPos(s) ==
    LET sql_upper == Upper(s)
    IN  Min({Len(s)} \cup {Find(sql_upper, kw) : kw \in {k \in InsertKeywords :
                                                      Contains(sql_upper, k)}})

\* f"{before} FROM {table_name} {after}".strip()
Splice(s, pos, table) ==
    Strip(Strip(SliceTo(s, pos)) \o KwFromPadded \o table \o <<" ">> \o Strip(SliceFrom(s, pos)))

\* Validate and fix a missing FROM clause.
InjectFrom(s, table) ==
    IF Contains(Upper(s), KwSelect) /\ ~Contains(Upper(s), KwFrom)
    THEN Splice(s, InsertPos(s), table)
    ELSE s

\* Final validation: TRUE when the text is returned, FALSE when it is raised with.
Valid(s) == StartsWith(Upper(s), KwSelect) /\ Contains(Upper(s), KwFrom)

\* The post-processing of one reply: the cleaned text, the final text, and
\* whether generate_sql_query returns it.
PostProcess(raw, table) ==
    LET cleaned == Cleaned(raw)
        final == InjectFrom(cleaned, table)
    IN  [cleaned |-> cleaned, text |-> final, ok |-> Valid(final)]

(***************************************************************************)
(* The provider replies generate_sql_query is applied to: every             *)
(* concatenation of at most MaxFrags fragments, and the replies the         *)
(* specification names.                                                     *)
(***************************************************************************)

MaxFrags == 3

FragSelectA == <<"S", "E", "L", "E", "C", "T", " ", "a">>
FragSelected == <<"s", "e", "l", "e", "c", "t", "e", "d">>
FragFromData == <<" ", "F", "R", "O", "M", " ", "d", "a", "t", "a">>
FragFromOther == <<" ", "F", "R", "O", "M", " ", "o", "t", "h", "e", "r">>
FragWhere == <<" ", "W", "H", "E", "R", "E", " ", "b">>
FragOrderBy == <<" ", "O", "R", "D", "E", "R", " ", "B", "Y", " ", "c">>
FragFromCol == <<" ", "f", "r", "o", "m", "_", "d">>
FragSemi == <<";">>
FragNewline == <<"\n">>
FragFence == <<Backtick, Backtick, Backtick>>
FragSql == <<"s", "q", "l">>
FragLabel == <<"S", "Q", "L", ":">>
FragEszett == <<Eszett>>

Fragments == {FragSelectA, FragSelected, FragFromData, FragFromOther, FragWhere, FragOrderBy, FragFromCol,
              FragSemi, FragNewline, FragFence, FragSql, FragLabel, FragEszett}

ReplyScenarioC ==
    <<"G", "e", "n", "d", "e", "r", ",", " ", "C", "O", "U", "N", "T", "(", "*", ")",
      " ", "a", "s", " ", "c", "o", "u", "n", "t", " ", "G", "R", "O", "U", "P", " ",
      "B", "Y", " ", "G", "e", "n", "d", "e", "r">>
ReplyTwoTerminators ==
    <<"S", "E", "L", "E", "C", "T", " ", "a", " ", "F", "R", "O", "M", " ", "d", "a",
      "t", "a", ";", " ", ";">>
ReplyFenced ==
    <<Backtick, Backtick, Backtick, "s", "q", "l", "\n", "S", "E", "L", "E", "C", "T", " ", "a", " ",
      "F", "R", "O", "M", " ", "d", "a", "t", "a", "\n", Backtick, Backtick, Backtick>>

ReplyKeywordInColumn ==
    <<"S", "E", "L", "E", "C", "T", " ", "c", "r", "e", "d", "i", "t", "_", "l", "i",
      "m", "i", "t">>

\* A complete first line followed by a second line.
ReplyTwoLines ==
    <<"S", "E", "L", "E", "C", "T", " ", "a", " ", "F", "R", "O", "M", " ", "d", "a",
      "t", "a", "\n", "W", "H", "E", "R", "E", " ", "b">>

NamedReplies == {ReplyScenarioC, ReplyTwoTerminators, ReplyFenced, ReplyKeywordInColumn,
                 ReplyTwoLines}

RECURSIVE Concat(_)
Concat(fs) == IF fs = <<>> THEN <<>> ELSE Head(fs) \o Concat(Tail(fs))

Replies ==
    NamedReplies \cup
    UNION {{Concat(fs) : fs \in [1..n -> Fragments]} : n \in 0..MaxFrags}

\* Every caller passes "data"; "t1" stands for any other table name.
TableData == <<"d", "a", "t", "a">>
TableOther == <<"t", "1">>
Tables == {TableData, TableOther}

\* What client.chat_completion hands generate_sql_query:
\*   content     a response holding the reply text
\*   no_content  a response without choices[0].message.content (KeyError)
\*   raised      chat_completion raised
ResponseKinds == {"content", "no_content", "raised"}

\* generate_sql_query from the response on: returns the final text, or raises
\* (the except clause wraps whatever was raised inside the try block).
GenerateSql ==
    /\ sql_pc = "start"
    /\ IF response_kind = "content"
       THEN LET r == PostProcess(raw_reply, table_name)
            IN  /\ sql_cleaned' = r.cleaned
                /\ sql_out' = r.text
                /\ sql_pc' = IF r.ok THEN "returned" ELSE "raised"
       ELSE /\ sql_pc' = "raised"
            /\ UNCHANGED <<sql_cleaned, sql_out>>
    /\ UNCHANGED <<raw_reply, table_name, response_kind, sql_again>>
    /\ UNCHANGED <<clientVars, pipeVars, convVars>>

\* The returned query is given to the post-processing as if it were a reply.
Reprocess ==
    /\ sql_pc = "returned"
    /\ sql_again' = PostProcess(sql_out, table_name)
    /\ sql_pc' = "reprocessed"
    /\ UNCHANGED <<raw_reply, table_name, response_kind, sql_cleaned, sql_out>>
    /\ UNCHANGED <<clientVars, pipeVars, convVars>>

NoAgain == [cleaned |-> <<>>, text |-> <<>>, ok |-> FALSE]

\* The client as constructed; every response, reply and table name.
InitSql ==
    /\ InitClient
    /\ InitPipe
    /\ InitConvIdle
    /\ response_kind \in ResponseKinds
    /\ raw_reply \in (IF response_kind = "content" THEN Replies ELSE {<<>>})
    /\ table_name \in Tables
    /\ sql_pc = "start"
    /\ sql_cleaned = <<>>
    /\ sql_out = <<>>
    /\ sql_again = NoAgain

NextSql == GenerateSql \/ Reprocess

SqlSpec == InitSql /\ [][NextSql]_vars

\* No generate_sql_query call is under way.
InitSqlIdle ==
    /\ raw_reply = <<>>
    /\ table_name = TableData
    /\ response_kind = "content"
    /\ sql_pc = "start"
    /\ sql_cleaned = <<>>
    /\ sql_out = <<>>
    /\ sql_again = NoAgain

Init == InitClient /\ InitSqlIdle /\ InitPipe /\ InitConvIdle

Next ==
    \/ \E provider \in ProviderNames, api_key \in ApiKeys : add_client(provider, api_key)
    \/ \E provider \in ProviderNames, model \in ModelArgs :
          set_active_provider(provider, model)
    \/ \E xai_key, groq_key, gemini_key \in EnvKeys, env_provider \in EnvProviders,
          env_model \in EnvModels :
          initialize_ai_from_env(xai_key, groq_key, gemini_key, env_provider, env_model)
    \/ GenerateSqlNoClient
    \/ InterpretNoClient
    \/ ChatBegin
    \/ ChatStep
    \/ ChatEnd

Spec == Init /\ [][Next]_vars

(***************************************************************************)
(* Claims about UnifiedAIClient.chat_completion (checked under Spec)        *)
(***************************************************************************)

\* The registered providers other than the active one, in registration order.
OtherProviders ==
    LET keys == [i \in 1..Len(clients) |-> clients[i].key]
    IN  SelectSeq(keys, LAMBDA k : k # active_provider)

AttemptFailed(a) == AdapterRaises(a.provider, a.outcome)

\* C1: chat_completion attempts the active provider first, with the active
\* model; only after a failed attempt does it go on, to the other registered
\* providers in registration order, each with the first entry of its own model
\* list; the reply returned is that of the first attempt that succeeds, and no
\* provider is attempted after it.
C1_ActiveFirstThenOthersInOrder ==
    /\ Len(attempts) <= 1 + Len(OtherProviders)
    /\ \A i \in 1..Len(attempts) :
          IF i = 1
          THEN /\ attempts[i].provider = active_provider
               /\ attempts[i].model = active_model
          ELSE /\ attempts[i].provider = OtherProviders[i - 1]
               /\ attempts[i].model = AvailableModels(OtherProviders[i - 1])[1]
    /\ \A i \in 1..(Len(attempts) - 1) : AttemptFailed(attempts[i])
    /\ (Len(attempts) > 0 /\ ~AttemptFailed(attempts[Len(attempts)]))
          => /\ pc = "done"
             /\ result.kind = "returned"
             /\ result.provider = attempts[Len(attempts)].provider
             /\ result.model = attempts[Len(attempts)].model
    /\ (pc = "done" /\ result.kind = "returned")
          => Len(attempts) > 0 /\ ~AttemptFailed(attempts[Len(attempts)])

\* A call that the active provider and the first other provider failed and
\* the second other provider answered.
C1_Witness ==
    /\ pc = "done"
    /\ result.kind = "returned"
    /\ Len(attempts) = 3
    /\ active_provider = clients[2].key
    /\ result.provider = clients[3].key

\* C2: when every provider attempted in a call fails, the failure raised
\* carries one error entry for every provider attempted in that call.
C2_AllFailedCarriesEveryError ==
    (pc = "done" /\ result.kind = "raised" /\ Len(attempts) > 0)
        => {[provider |-> result.errors[i].provider, cause |-> result.errors[i].cause] :
                i \in 1..Len(result.errors)}
           = {[provider |-> attempts[i].provider, cause |-> attempts[i].outcome] :
                i \in 1..Len(attempts)}

\* C9: a network error, a non-2xx response or a reply without completion text
\* makes the adapter raise a failure naming the provider and carrying the
\* cause; chat_completion never returns such a reply as a success.
C9_BadReplyIsAFailure ==
    /\ \A i \in 1..Len(attempts) :
          attempts[i].outcome # "ok"
              => /\ AdapterRaises(attempts[i].provider, attempts[i].outcome)
                 /\ AdapterError(attempts[i].provider, attempts[i].outcome)
                      = [provider |-> attempts[i].provider,
                         cause |-> attempts[i].outcome]
    /\ (pc = "done" /\ result.kind = "returned") => result.well_formed

\* C17: whenever at least one provider is registered, exactly one registered
\* provider is the active one.
C17_OneRegisteredProviderActive ==
    ClientKeys # {} => active_provider \in ClientKeys

InCall == pc \in {"try_active", "fallback"}

\* The steps a call can still take: it falls with every step.
CallMeasure ==
    CASE pc = "try_active" -> Len(clients) + 3
      [] pc = "fallback" -> Len(clients) + 2 - fb_index
      [] OTHER -> 0

C10_Inv ==
    /\ \A i, j \in 1..Len(attempts) :
          i # j => attempts[i].provider # attempts[j].provider
    /\ Len(attempts) <= Len(clients)
    /\ InCall => ENABLED ChatStep
    /\ pc = "done" => result.op = "chat_completion" /\ result.kind \in {"returned", "raised"}

\* C10: within one call every registered provider is called at most once, the
\* attempts never outnumber the registered providers, and the call ends with a
\* reply or a raised failure (a call under way can always step, and every step
\* brings its end nearer).
C10_EachProviderAtMostOnce ==
    /\ []C10_Inv
    /\ [][InCall => CallMeasure' < CallMeasure]_vars

\* Three providers registered, each called once, all failed.
C10_Witness ==
    /\ pc = "done"
    /\ result.kind = "raised"
    /\ Len(clients) = 3
    /\ Len(attempts) = 3

(***************************************************************************)
(* Claims about generate_sql_query (checked under SqlSpec)                  *)
(***************************************************************************)

Digits == {"0", "1", "2", "3", "4", "5", "6", "7", "8", "9"}

\* The characters of an identifier or a word.
WordChars ==
    {Lowers[i] : i \in 1..26} \cup {Uppers[i] : i \in 1..26} \cup Digits \cup {"_", Eszett}

\* The keyword kw stands at position i (1-based) of s as a word of its own,
\* in any letter case.
WordAt(s, i, kw) ==
    /\ i + Len(kw) - 1 <= Len(s)
    /\ Upper(SubSeq(s, i, i + Len(kw) - 1)) = kw
    /\ i = 1 \/ s[i - 1] \notin WordChars
    /\ i + Len(kw) > Len(s) \/ s[i + Len(kw)] \notin WordChars

ContainsWord(s, kw) == \E i \in 1..Len(s) : WordAt(s, i, kw)

\* The table a FROM at position i refers to: the identifier that follows it
\* after white space, empty if there is none.
TableRef(s, i) ==
    LET rest == {k \in (i + 4)..Len(s) : s[k] \notin Whitespace}
        k == IF rest = {} THEN 0 ELSE Min(rest)
        stop == {m \in k..Len(s) : s[m] \notin WordChars}
    IN  IF k = 0 \/ k = i + 4 THEN <<>>
        ELSE SubSeq(s, k, IF stop = {} THEN Len(s) ELSE Min(stop) - 1)

FromPositions(s) == {i \in 1..Len(s) : WordAt(s, i, KwFrom)}

HasSourceClause(s) == \E i \in FromPositions(s) : TableRef(s, i) # <<>>

\* C3: every string generate_sql_query returns begins with the keyword SELECT
\* and contains a source clause, the keyword FROM followed by a table
\* reference; a text that fails either is raised with, not returned.
C3_ReturnedQueryHasSelectAndSource ==
    sql_pc = "returned" => WordAt(sql_out, 1, KwSelect) /\ HasSourceClause(sql_out)

\* C4: a reply that contains no keyword SELECT as a word is never returned as
\* a query: generate_sql_query raises.
C4_NoSelectWordRaises ==
    (sql_pc # "start" /\ response_kind = "content" /\ ~ContainsWord(raw_reply, KwSelect))
        => sql_pc = "raised"

\* C5: post-processing is idempotent on its own output: applied to a returned
\* query it yields that query again.
C5_PostProcessIdempotent ==
    sql_pc = "reprocessed" => sql_again.ok /\ sql_again.text = sql_out

\* C6: a returned query names table_name exactly once as the table of its FROM
\* clause, and names no other table there.
C6_TableNamedExactlyOnce ==
    sql_pc = "returned"
        => /\ Cardinality(FromPositions(sql_out)) = 1
           /\ \A i \in FromPositions(sql_out) : TableRef(sql_out, i) = table_name

\* The 1-based positions of s at which one of the insert keywords stands.
KeywordPositions(s) == {i \in 1..Len(s) : \E kw \in InsertKeywords : WordAt(s, i, kw)}

\* The repair the specification describes: FROM <table_name> goes right before
\* the leftmost keyword, or to the end when there is none.
ExpectedRepair(s, table) ==
    LET at == IF KeywordPositions(s) = {} THEN Len(s) + 1 ELSE Min(KeywordPositions(s))
    IN  Strip(Strip(SubSeq(s, 1, at - 1)) \o KwFromPadded \o table \o <<" ">>
              \o Strip(SubSeq(s, at, Len(s))))

\* C7: a cleaned reply with SELECT and without FROM gets FROM <table_name>
\* inserted strictly before its leftmost WHERE, GROUP BY, HAVING, ORDER BY or
\* LIMIT keyword, the text on both sides kept; without such a keyword it is
\* appended.
C7_FromGoesBeforeLeftmostKeyword ==
    (sql_pc \in {"returned", "raised"} /\ response_kind = "content"
        /\ Contains(Upper(sql_cleaned), KwSelect) /\ ~Contains(Upper(sql_cleaned), KwFrom))
        => sql_out = ExpectedRepair(sql_cleaned, table_name)

\* C8: the query returned for a reply that holds code-fence markers holds no
\* run of three backticks.
C8_ReturnedQueryHasNoFence ==
    (sql_pc = "returned" /\ Contains(raw_reply, Fence)) => ~Contains(sql_out, Fence)

\* A reply fenced at both ends whose query is returned.
C8_Witness ==
    /\ sql_pc = "returned"
    /\ StartsWith(raw_reply, FenceSqlLower)
    /\ Contains(SliceFrom(raw_reply, 6), Fence)
    /\ sql_out # <<>>

\* The text line handling is applied to: the reply after fence, label and
\* leading-prose stripping.
BeforeLines(raw) == DropProse(StripLabel(StripFences(Strip(raw))))

\* kw occurs in s in any letter case.
ContainsAnyCase(s, kw) ==
    \E i \in 1..Len(s) :
        /\ i + Len(kw) - 1 <= Len(s)
        /\ Upper(SubSeq(s, i, i + Len(kw) - 1)) = kw

\* The line handling the specification describes.
ExpectedLines(s) ==
    LET lines == NonBlankLines(s)
    IN  IF /\ Len(lines) > 1
           /\ ContainsAnyCase(lines[1], KwSelect)
           /\ ContainsAnyCase(lines[1], KwFrom)
        THEN lines[1]
        ELSE Join(lines)

\* C20: after fence, label and leading-prose stripping, a reply of more than
\* one non-blank line whose first line contains both SELECT and FROM is cut
\* down to that first line; any other reply becomes its non-blank lines, each
\* trimmed, joined by single spaces in their order.
C20_FirstLineOrJoinedLines ==
    (sql_pc # "start" /\ response_kind = "content")
        => /\ JoinLines(BeforeLines(raw_reply)) = ExpectedLines(BeforeLines(raw_reply))
           /\ sql_cleaned = StripTerminator(ExpectedLines(BeforeLines(raw_reply)))

\* A reply of two lines whose first line is complete: the second is dropped.
C20_Witness ==
    /\ sql_pc = "returned"
    /\ Len(NonBlankLines(BeforeLines(raw_reply))) = 2
    /\ ContainsAnyCase(NonBlankLines(BeforeLines(raw_reply))[1], KwFrom)
    /\ sql_out = NonBlankLines(BeforeLines(raw_reply))[1]
    /\ ~Contains(sql_out, KwWhere)
    /\ Contains(raw_reply, KwWhere)

(***************************************************************************)
(* The question pipeline: ai_query (backend_api/main.py) and the AI Queries *)
(* tab of the analysis page (pages/3_Analysis_Insights.py) call             *)
(* generate_sql_query, execute_query and interpret_results on the one       *)
(* UnifiedAIClient that get_unified_client hands to every session.          *)
(***************************************************************************)

\* The user sessions: Streamlit sessions or authenticated API users.
Sessions == {"s1", "s2"}

\* st.session_state.groq_key of a session.
SessionKey(s) == IF s = "s1" THEN "k1" ELSE "k2"

\* get_unified_client(): the client a session works on.  There is one global
\* instance, so every session is handed the same clients, active provider and
\* active model.
UnifiedClient(s) ==
    [providers |-> [i \in 1..Len(clients) |-> clients[i].key],
     active_provider |-> active_provider,
     active_model |-> active_model]

\* AIConfigRequest.model: any string.
RequestModels == {"grok-2-1212", "unlisted-model"}

\* POST /api/ai/configure: add_client, then set_active_provider with the name
\* as given; a ValueError of either becomes the 500 response.
configure_ai(s, provider, api_key, model) ==
    /\ stage = "idle"
    /\ pc = "idle"
    /\ LET key == AddClientKey(provider)
           added == IF key = None THEN clients ELSE DictSet(clients, key, api_key)
           provider_lower == Lower(provider)
           known == key # None /\ \E i \in 1..Len(added) : added[i].key = provider_lower
       IN  /\ clients' = added
           /\ IF known
              THEN /\ active_provider' = provider_lower
                   /\ active_model' = IF model = None THEN DefaultModel(provider_lower)
                                      ELSE model
                   /\ result' = Returned("configure_ai")
              ELSE /\ result' = Raised("configure_ai", ValueError)
                   /\ UNCHANGED <<active_provider, active_model>>
    /\ UNCHANGED <<pc, fb_index, first_error, attempts>>
    /\ UNCHANGED <<sqlVars, pipeVars, convVars>>

\* The Switch button of render_ai_sidebar.  The sidebar reaches it only with a
\* provider registered and an active provider to display; the choices are the
\* registered providers and the models of the chosen one.
SidebarSwitch(s, provider, model) ==
    /\ stage = "idle"
    /\ active_provider # None
    /\ provider \in ClientKeys
    /\ \E i \in 1..Len(AvailableModels(provider)) : AvailableModels(provider)[i] = model
    /\ set_active_provider(provider, model)

\* GroqClient(api_key), the legacy wrapper: registers the key as xai and makes
\* xai with grok-2-1212 the active provider of the unified client.
GroqClientInit(api_key) ==
    /\ clients' = DictSet(clients, "xai", api_key)
    /\ active_provider' = "xai"
    /\ active_model' = "grok-2-1212"

\* Mutant of ExecTable: the dataset goes under another name.
ExecTableOther == <<"d", "f">>

\* The name execute_query gives the dataset in its engine.
ExecTable == <<"d", "a", "t", "a">>

\* df.columns of the dataset asked about.
DfColumns == {<<"a">>, <<"b">>, <<"c">>}

\* Replies of a provider to the synthesis prompt.
FragSelectZ == <<"S", "E", "L", "E", "C", "T", " ", "z">>
ReplyGood == FragSelectA \o FragFromData
ReplyNoFrom == FragSelectA
ReplyUnknownColumn == FragSelectZ \o FragFromData
ReplyOtherTable == FragSelectA \o FragFromOther
PipeReplies == {ReplyGood, ReplyNoFrom, ReplyUnknownColumn, ReplyOtherTable, ReplyScenarioC}

\* The identifier that starts at the first character after position p that is
\* not white space.
WordAfter(s, p) ==
    LET rest == {k \in (p + 1)..Len(s) : s[k] \notin Whitespace}
        k == IF rest = {} THEN 0 ELSE Min(rest)
        stop == {m \in k..Len(s) : s[m] \notin WordChars}
    IN  IF k = 0 THEN <<>>
        ELSE SubSeq(s, k, IF stop = {} THEN Len(s) ELSE Min(stop) - 1)

\* What the engine makes of a query over the tables it holds: ok, or the
\* cause of its rejection.
EngineOutcome(sql_query, tables) ==
    IF FromPositions(sql_query) = {} THEN "syntax_error"
    ELSE IF TableRef(sql_query, Min(FromPositions(sql_query))) \notin tables
    THEN "no_such_table"
    ELSE IF WordAfter(sql_query, Len(KwSelect)) \notin DfColumns THEN "no_such_column"
    ELSE "ok"

\* The DatabaseError of pd.read_sql_query: "Execution failed on sql '<sql>': <cause>".
DatabaseError(sql_query, cause) == [sql |-> sql_query, cause |-> cause]

\* Mutant of ExecutionError: the message drops the text of e.
ExecutionErrorBare(e) == Failure("execute_query", {}, <<>>, e.cause)

\* raise Exception(f"Error executing query: {e}")
ExecutionError(e) == Failure("execute_query", {}, e.sql, e.cause)

\* The providers the text of a chat_completion failure names.
ProvidersNamed(errs) == {errs[i].provider : i \in 1..Len(errs)} \ {None}

\* The KeyError of response['choices'] on a reply without completion text.
KeyError == <<[provider |-> None, cause |-> "KeyError"]>>

\* raise Exception(f"Error generating SQL query: {e}"), e being what
\* chat_completion raised or the KeyError.
SynthesisCallError(errs) ==
    Failure("generate_sql_query", ProvidersNamed(errs), <<>>, errs[1].cause)

\* The same, e being "Generated invalid SQL query: {sql_query}" or
\* "Generated SQL missing FROM clause: {sql_query}".
SynthesisTextError(sql_query) == Failure("generate_sql_query", {}, sql_query, "invalid_sql")

\* HTTPException(500, detail=str(e)) of ai_query; st.error of the page.
Failed(error) == [NoResponse EXCEPT !.kind = "failure", !.error = error]

\* The call of chat_completion is over and its locals are gone.
ChatLocalsGone ==
    /\ pc' = "idle"
    /\ fb_index' = 1
    /\ first_error' = NoError
    /\ attempts' = <<>>
    /\ result' = NoResult

\* POST /api/ai/query up to the call of generate_sql_query.
AskApi(s, found) ==
    /\ stage = "idle"
    /\ pc = "idle"
    /\ entry' = "api"
    /\ IF found
       THEN /\ stage' = "synth"
            /\ calls' = <<"generate_sql_query">>
            /\ response' = NoResponse
       ELSE /\ stage' = "finished"
            /\ calls' = <<>>
            /\ response' = Failed(Failure("load_dataset", {}, <<>>, "not_found"))
    /\ UNCHANGED <<conn, results>>
    /\ UNCHANGED <<clientVars, sqlVars, convVars>>

\* The Analyze button of the page up to the call of generate_sql_query: the
\* page constructs the legacy wrapper from the session's key first.
AskPage(s) ==
    /\ stage = "idle"
    /\ pc = "idle"
    /\ GroqClientInit(SessionKey(s))
    /\ entry' = "page"
    /\ stage' = "synth"
    /\ calls' = <<"generate_sql_query">>
    /\ response' = NoResponse
    /\ UNCHANGED <<conn, results>>
    /\ UNCHANGED <<pc, fb_index, first_error, attempts, result>>
    /\ UNCHANGED <<sqlVars, convVars>>

\* client.chat_completion inside generate_sql_query or interpret_results.
PipeChat ==
    /\ stage \in {"synth", "interp"}
    /\ ChatBegin \/ ChatStep

\* generate_sql_query after chat_completion: the reply is post-processed and
\* returned to the caller, who calls execute_query; a failure ends the request.
SynthReturn(reply) ==
    /\ stage = "synth"
    /\ pc = "done"
    /\ ChatLocalsGone
    /\ IF result.kind = "raised" \/ ~result.well_formed
       THEN /\ stage' = "finished"
            /\ sql_pc' = "raised"
            /\ response' = Failed(SynthesisCallError(
                               IF result.kind = "raised" THEN result.errors ELSE KeyError))
            /\ UNCHANGED <<sql_out, calls>>
       ELSE LET r == PostProcess(reply, table_name)
            IN  /\ sql_out' = r.text
                /\ IF r.ok
                   THEN /\ sql_pc' = "returned"
                        /\ stage' = "exec"
                        /\ calls' = Append(calls, "execute_query")
                        /\ UNCHANGED response
                   ELSE /\ sql_pc' = "raised"
                        /\ stage' = "finished"
                        /\ response' = Failed(SynthesisTextError(r.text))
                        /\ UNCHANGED calls
    /\ UNCHANGED <<entry, conn, results>>
    /\ UNCHANGED <<clients, active_provider, active_model>>
    /\ UNCHANGED <<raw_reply, table_name, response_kind, sql_cleaned, sql_again>>
    /\ UNCHANGED convVars

\* The result tables a query the engine accepts can give.
ResultTables == {"empty", "rows"}

\* execute_query and what its caller does with the outcome.  The connection
\* is closed after pd.read_sql_query returns; a raise skips conn.close().
\* ai_query goes on to interpret_results; the page does so for a result
\* table with rows and warns "No results returned" otherwise.
ExecuteQuery(table) ==
    /\ stage = "exec"
    /\ LET outcome == EngineOutcome(sql_out, {ExecTable})
       IN  IF outcome = "ok"
           THEN /\ conn' = "closed"
                /\ results' = table
                /\ IF entry = "page" /\ table = "empty"
                   THEN /\ stage' = "finished"
                        /\ response' = [NoResponse EXCEPT !.kind = "no_results",
                                                          !.sql = sql_out]
                        /\ UNCHANGED calls
                   ELSE /\ stage' = "interp"
                        /\ calls' = Append(calls, "interpret_results")
                        /\ UNCHANGED response
           ELSE /\ conn' = "open"
                /\ stage' = "finished"
                /\ response' = Failed(ExecutionError(DatabaseError(sql_out, outcome)))
                /\ UNCHANGED <<results, calls>>
    /\ UNCHANGED entry
    /\ UNCHANGED <<clientVars, sqlVars, convVars>>

\* What interpret_results returns: the text of the reply, or
\* f"Results retrieved successfully, but couldn't generate interpretation: {e}".
Interpretation ==
    IF result.kind = "raised" THEN [kind |-> "fallback", detail |-> result.errors]
    ELSE IF ~result.well_formed THEN [kind |-> "fallback", detail |-> KeyError]
    ELSE [kind |-> "text", detail |-> <<>>]

\* interpret_results after chat_completion, and the response built from it.
InterpretReturn ==
    /\ stage = "interp"
    /\ pc = "done"
    /\ ChatLocalsGone
    /\ stage' = "finished"
    /\ response' = [NoResponse EXCEPT !.kind = "success", !.sql = sql_out,
                                      !.results = results,
                                      !.interpretation = Interpretation]
    /\ UNCHANGED <<entry, calls, conn, results>>
    /\ UNCHANGED <<clients, active_provider, active_model>>
    /\ UNCHANGED <<sqlVars, convVars>>

\* The caller has the response; the locals of the handler are gone.
Respond ==
    /\ stage = "finished"
    /\ entry' = "none"
    /\ stage' = "idle"
    /\ calls' = <<>>
    /\ conn' = "none"
    /\ results' = "none"
    /\ response' = NoResponse
    /\ sql_pc' = "start"
    /\ sql_out' = <<>>
    /\ UNCHANGED <<raw_reply, table_name, response_kind, sql_cleaned, sql_again>>
    /\ UNCHANGED <<clientVars, convVars>>

NextPipe ==
    \/ \E s \in Sessions, provider \in ProviderNames, api_key \in ApiKeys,
          model \in RequestModels : configure_ai(s, provider, api_key, model)
    \/ \E s \in Sessions, provider \in ProviderKeys, model \in ModelArgs :
          SidebarSwitch(s, provider, model)
    \/ \E s \in Sessions, found \in BOOLEAN : AskApi(s, found)
    \/ \E s \in Sessions : AskPage(s)
    \/ PipeChat
    \/ \E reply \in PipeReplies : SynthReturn(reply)
    \/ \E table \in ResultTables : ExecuteQuery(table)
    \/ InterpretReturn
    \/ Respond

PipeSpec == Init /\ [][NextPipe]_vars

(***************************************************************************)
(* Claims about the question pipeline (checked under PipeSpec)              *)
(***************************************************************************)

\* The one fallback text a fixed string would be: it holds nothing of the error.
FixedFallback == [kind |-> "fallback", detail |-> <<>>]

\* C11: when the provider call of interpret_results fails, interpret_results
\* does not raise but returns a fixed fallback string, and the caller is given
\* the query result table together with that text, not a failure.
C11_InterpretationFailureGivesFixedFallback ==
    (stage = "finished" /\ response.interpretation.kind = "fallback")
        => /\ response.kind = "success"
           /\ response.sql = sql_out
           /\ response.results = results
           /\ response.interpretation = FixedFallback

ExecutionFailed ==
    stage = "finished" /\ response.kind = "failure"
        /\ response.error.failed = "execute_query"

\* C12: a query the engine rejects makes execute_query raise an error that
\* holds the text of the query, and the request ends there: execute_query is
\* not called again and no provider is called.
C12_ExecutionErrorHoldsQueryNoRetry ==
    ExecutionFailed
        => /\ sql_out # <<>>
           /\ response.error.sql = sql_out
           /\ calls = <<"generate_sql_query", "execute_query">>
           /\ pc = "idle"
           /\ attempts = <<>>
           /\ ~ENABLED PipeChat
           /\ ~ENABLED (\E table \in ResultTables : ExecuteQuery(table))

\* A query naming a column the dataset does not have was rejected.
C12_Witness ==
    /\ ExecutionFailed
    /\ response.error.cause = "no_such_column"
    /\ response.error.sql = ReplyUnknownColumn

\* C13: the engine execute_query creates is closed when the call ends, whether
\* it returns or raises: no engine remains open after a call.
C13_NoEngineLeftOpen == conn # "open"

AllThreeCalls == <<"generate_sql_query", "execute_query", "interpret_results">>

\* C14: the functions called for a question are generate_sql_query, then
\* execute_query, then interpret_results, each once; a question whose query
\* executed, with an empty result table too, has had all three.
C14_OneSynthesisOneExecutionOneInterpretation ==
    /\ Len(calls) <= 3
    /\ calls = SubSeq(AllThreeCalls, 1, Len(calls))
    /\ (stage = "finished" /\ conn = "closed") => calls = AllThreeCalls

\* C15: a failure of synthesis ends the request before execute_query and
\* interpret_results are called, a failure of execution before
\* interpret_results is; the failure shown to the caller holds the query text
\* or names the failed provider, and no provider is called again.
C15_FailureAbortsAndNamesQueryOrProvider ==
    (stage = "finished" /\ response.kind = "failure"
        /\ response.error.failed \in {"generate_sql_query", "execute_query"})
        => /\ response.error.failed = "generate_sql_query" => calls = <<"generate_sql_query">>
           /\ response.error.failed = "execute_query"
                => calls = <<"generate_sql_query", "execute_query">>
           /\ response.error.sql # <<>> \/ response.error.providers # {}
           /\ ~ENABLED PipeChat

\* A step in which session s changes the provider configuration: configure_ai,
\* the sidebar switch, or the construction of the legacy wrapper by the page.
SessionStep(s) ==
    \/ \E provider \in ProviderNames, api_key \in ApiKeys, model \in RequestModels :
          configure_ai(s, provider, api_key, model)
    \/ \E provider \in ProviderKeys, model \in ModelArgs : SidebarSwitch(s, provider, model)
    \/ AskPage(s)

\* C16: a session that registers a provider or changes the active provider or
\* model never changes the providers, the active provider or the active model
\* another session observes.
C16_SessionsOwnTheirConfiguration ==
    [][\A s, t \in Sessions :
          (s # t /\ SessionStep(s)) => UnifiedClient(t)' = UnifiedClient(t)]_vars

\* C18: answering a question leaves the registered providers, the active
\* provider and the active model as they were.
C18_PipelineKeepsConfiguration ==
    [][(stage # "idle" \/ stage' # "idle")
          => UNCHANGED <<clients, active_provider, active_model>>]_vars

Executed == \E i \in 1..Len(calls) : calls[i] = "execute_query"

\* C19: the dataset is in the engine under the table name given to
\* generate_sql_query: a query whose FROM clause names that table is not
\* rejected for a missing table.
C19_DatasetUnderSynthesisTableName ==
    (stage \in {"interp", "finished"} /\ Executed /\ FromPositions(sql_out) # {}
        /\ TableRef(sql_out, Min(FromPositions(sql_out))) = table_name)
        => \/ conn = "closed"
           \/ response.kind = "failure" /\ response.error.cause = "no_such_column"

\* A reply without FROM was repaired with the table name and its query found
\* the dataset.
C19_Witness ==
    /\ stage = "finished"
    /\ response.kind = "success"
    /\ response.sql = FragSelectA \o KwFromPadded \o table_name
    /\ response.results = "rows"

(***************************************************************************)
(* Conversions called on their own: GeminiClient._convert_messages and      *)
(* _convert_response (core/ai_client.py), and the result preview of         *)
(* interpret_results (core/ml_engine.py).                                   *)
(***************************************************************************)

MaxMsgs == 3
MaxCandidates == 2
MaxParts == 2
MaxRows == 12

\* The messages of a chat: role-tagged turns.
Roles == {"user", "system", "assistant", "tool"}
Contents == {"c1", "c2"}
Messages == [role : Roles, content : Contents]
MessageLists == UNION {[1..n -> Messages] : n \in 0..MaxMsgs}

\* Mutant of convert_messages: system messages are left out.
convert_messages_no_system(messages) ==
    LET kept == SelectSeq(messages, LAMBDA msg : msg.role # "system")
    IN  [i \in 1..Len(kept) |->
            [role |-> IF kept[i].role = "user" THEN "user" ELSE "model",
             parts |-> <<[text |-> kept[i].content]>>]]

\* GeminiClient._convert_messages
convert_messages(messages) ==
    [i \in 1..Len(messages) |->
        [role |-> IF messages[i].role \in {"user", "system"} THEN "user" ELSE "model",
         parts |-> <<[text |-> messages[i].content]>>]]

\* The JSON body of a Gemini answer: its candidates, each with the parts of
\* its content, or a body without the candidates key.
Texts == {"t1", "t2"}
PartLists == UNION {[1..n -> Texts] : n \in 0..MaxParts}
Candidates == [parts : PartLists]
GeminiBodies ==
    {[has_candidates |-> FALSE, candidates |-> <<>>]} \cup
    {[has_candidates |-> TRUE, candidates |-> c] :
        c \in UNION {[1..n -> Candidates] : n \in 0..MaxCandidates}}

\* response["candidates"][0]["content"]["parts"][0]["text"] is there.
HasFirstText(body) ==
    /\ body.has_candidates
    /\ Len(body.candidates) > 0
    /\ Len(body.candidates[1].parts) > 0

\* GeminiClient._convert_response
convert_response(body) ==
    IF HasFirstText(body)
    THEN [kind |-> "returned",
          choices |-> <<[message |-> [role |-> "assistant",
                                      content |-> body.candidates[1].parts[1]]]>>]
    ELSE [kind |-> "raised", choices |-> <<>>]

\* The result tables interpret_results is given: rows 1..n.
ResultFrames == {[i \in 1..n |-> i] : n \in 0..MaxRows}

\* results.head(10)
PreviewRows == 10

\* df.head(k)
DfHead(df, k) == SubSeq(df, 1, Min({k, Len(df)}))

\* Mutant of results_preview: the whole table goes into the prompt.
results_preview_all(frame) == frame

\* results.head(10).to_string() if len(results) > 10 else results.to_string()
results_preview(frame) ==
    IF Len(frame) > PreviewRows THEN DfHead(frame, PreviewRows) ELSE frame

ConvInputs ==
    {[fn |-> "convert_messages", value |-> m] : m \in MessageLists}
    \cup {[fn |-> "convert_response", value |-> b] : b \in GeminiBodies}
    \cup {[fn |-> "results_preview", value |-> f] : f \in ResultFrames}

ConvertMessages ==
    /\ conv_in.fn = "convert_messages"
    /\ conv_out = NoConversion
    /\ conv_out' = [fn |-> conv_in.fn, value |-> convert_messages(conv_in.value)]
    /\ UNCHANGED <<clientVars, sqlVars, pipeVars, conv_in>>

ConvertResponse ==
    /\ conv_in.fn = "convert_response"
    /\ conv_out = NoConversion
    /\ conv_out' = [fn |-> conv_in.fn, value |-> convert_response(conv_in.value)]
    /\ UNCHANGED <<clientVars, sqlVars, pipeVars, conv_in>>

PreviewResults ==
    /\ conv_in.fn = "results_preview"
    /\ conv_out = NoConversion
    /\ conv_out' = [fn |-> conv_in.fn, value |-> results_preview(conv_in.value)]
    /\ UNCHANGED <<clientVars, sqlVars, pipeVars, conv_in>>

InitConv ==
    /\ InitClient
    /\ InitSqlIdle
    /\ InitPipe
    /\ conv_in \in ConvInputs
    /\ conv_out = NoConversion

NextConv == ConvertMessages \/ ConvertResponse \/ PreviewResults

ConvSpec == InitConv /\ [][NextConv]_vars

(***************************************************************************)
(* Claims about the conversions (checked under ConvSpec)                    *)
(***************************************************************************)

\* C21: _convert_messages gives one turn per message, in the same order, with
\* the content unchanged, a user or system message as a user turn and any
\* other as a model turn; _convert_response gives the text of the first
\* candidate as the content of the first choice.
C21_GeminiConversionsKeepTurnsAndText ==
    /\ (conv_out # NoConversion /\ conv_in.fn = "convert_messages")
          => /\ Len(conv_out.value) = Len(conv_in.value)
             /\ \A i \in 1..Len(conv_in.value) :
                   /\ conv_out.value[i].parts = <<[text |-> conv_in.value[i].content]>>
                   /\ conv_in.value[i].role \in {"user", "system"}
                         => conv_out.value[i].role = "user"
                   /\ conv_in.value[i].role \notin {"user", "system"}
                         => conv_out.value[i].role = "model"
    /\ (conv_out # NoConversion /\ conv_in.fn = "convert_response"
          /\ conv_out.value.kind = "returned")
          => /\ Len(conv_out.value.choices) = 1
             /\ conv_out.value.choices[1].message.content
                   = conv_in.value.candidates[1].parts[1]

\* A system, an assistant and a user message were converted.
C21_Witness ==
    /\ conv_out # NoConversion
    /\ conv_in.fn = "convert_messages"
    /\ Len(conv_in.value) = 3
    /\ conv_in.value[1].role = "system"
    /\ conv_in.value[2].role = "assistant"
    /\ conv_out.value[1].role = "user"
    /\ conv_out.value[2].role = "model"

\* C22: the prompt of interpret_results holds min(n, 10) rows of a result of
\* n rows, the leading ones in their order.
C22_PromptHoldsLeadingTenRows ==
    (conv_out # NoConversion /\ conv_in.fn = "results_preview")
        => /\ Len(conv_out.value) = Min({Len(conv_in.value), 10})
           /\ \A i \in 1..Len(conv_out.value) : conv_out.value[i] = conv_in.value[i]

\* A result of more than ten rows was cut to ten.
C22_Witness ==
    /\ conv_out # NoConversion
    /\ conv_in.fn = "results_preview"
    /\ Len(conv_in.value) > 10
    /\ Len(conv_out.value) = 10

(***************************************************************************)
(* Claims about the configuration of UnifiedAIClient (checked under Spec,   *)
(* C24 under PipeSpec)                                                      *)
(***************************************************************************)

\* C23: active_provider is unset or the key of a registered client, and
\* active_model is set whenever active_provider is.
C23_ActiveProviderRegisteredAndModelSet ==
    /\ active_provider = None \/ active_provider \in ClientKeys
    /\ active_provider # None => active_model # None

\* set_active_provider was called without a model for the third provider.
C23_Witness ==
    /\ result.op = "set_active_provider"
    /\ result.kind = "returned"
    /\ Len(clients) = 3
    /\ active_provider = clients[3].key
    /\ active_model = DefaultModel(active_provider)

\* C24: a provider name add_client accepts is accepted by set_active_provider
\* too: configure_ai succeeds for every such name.
C24_AcceptedNameCanBeActivated ==
    [][\A s \in Sessions, provider \in ProviderNames, api_key \in ApiKeys,
         model \in RequestModels :
          (stage = "idle" /\ AddClientKey(provider) # None
              /\ configure_ai(s, provider, api_key, model))
          => result'.kind = "returned"]_vars

\* C25: when initialize_ai_from_env returns has_providers = true an active
\* provider and model are set, and when providers are registered on return
\* has_providers is true.
C25_HasProvidersMeansActiveProvider ==
    (pc = "idle" /\ result.op = "initialize_ai_from_env")
        => /\ result.has_providers => active_provider # None /\ active_model # None
           /\ ClientKeys # {} => result.has_providers

\* C26: the active model is one of the models get_available_models lists for
\* the active provider.
C26_ActiveModelIsListed ==
    active_provider # None
        => \E i \in 1..Len(AvailableModels(active_provider)) :
              AvailableModels(active_provider)[i] = active_model

\* C27: a rejected configuration call changes nothing: set_active_provider
\* with an unregistered provider and add_client with an unknown name raise and
\* leave the clients, their order and the active selection as they were.
C27_RejectedCallChangesNothing ==
    [][/\ \A provider \in ProviderNames, model \in ModelArgs :
            (pc = "idle" /\ Lower(provider) \notin ClientKeys
                /\ set_active_provider(provider, model))
            => /\ result'.kind = "raised"
               /\ UNCHANGED <<clients, active_provider, active_model>>
       /\ \A provider \in ProviderNames, api_key \in ApiKeys :
            (pc = "idle" /\ AddClientKey(provider) = None
                /\ add_client(provider, api_key))
            => /\ result'.kind = "raised"
               /\ UNCHANGED <<clients, active_provider, active_model>>]_vars

\* set_active_provider was rejected while another provider was active.
C27_Witness ==
    /\ result.op = "set_active_provider"
    /\ result.kind = "raised"
    /\ Len(clients) = 2
    /\ active_provider = clients[2].key

\* C28: chat_completion never changes the clients, the active provider or the
\* active model, however it ends; every call starts with the active provider.
C28_ChatKeepsConfiguration ==
    /\ [](Len(attempts) > 0 => attempts[1].provider = active_provider)
    /\ [][(pc # "idle" \/ pc' # "idle")
            => UNCHANGED <<clients, active_provider, active_model>>]_vars

\* A call answered by a fallback provider: the active provider is still the
\* one that failed.
C28_Witness ==
    /\ pc = "done"
    /\ result.kind = "returned"
    /\ Len(attempts) = 2
    /\ result.provider # active_provider
    /\ attempts[1].provider = active_provider

\* C29: with no active provider chat_completion raises, generate_sql_query
\* without a client raises and interpret_results without a client returns its
\* "unavailable" text, each without a provider call, whatever is registered.
C29_NoActiveProviderNoProviderCall ==
    /\ [](active_provider = None => attempts = <<>> /\ pc \in {"idle", "done"})
    /\ [][active_provider = None
            => /\ ChatBegin => pc' = "done" /\ result'.kind = "raised"
               /\ GenerateSqlNoClient
                    => /\ pc' = "idle"
                       /\ result' = Raised("generate_sql_query", <<[provider |-> None, cause |-> "NoProviderConfigured"]>>)
               /\ InterpretNoClient
                    => pc' = "idle" /\ result' = Returned("interpret_results")]_vars

\* chat_completion raised at once although two providers are registered.
C29_Witness ==
    /\ pc = "done"
    /\ result.kind = "raised"
    /\ attempts = <<>>
    /\ active_provider = None
    /\ Len(clients) = 2

====
